---- MODULE Spec2Model ----
(***************************************************************************)
(* Lunaria status engine: LunariaInstance.getFullStatus and getFileStatus. *)
(*                                                                         *)
(* A path "lang/name" is the sequence <<lang, name>> of its segments.  A   *)
(* pattern is a sequence of segments in which "@lang" is the locale        *)
(* placeholder and "@path" a parameter that matches any one segment.       *)
(* getFullStatus runs one file group after the other; inside a group the   *)
(* evaluations of the discovered files (getFileStatus) run concurrently,   *)
(* each suspended at its history lookups, which the history provider       *)
(* answers in any order.                                                   *)
(***************************************************************************)
EXTENDS Integers, Sequences, FiniteSets, TLC

\* Bounds of the model.
MaxGroups == 2    \* file groups in `files`
MaxTs == 2        \* commit dates are 0..MaxTs
MaxAbsent == 2    \* paths of the tree that are not on disk
MaxCalls == 2     \* direct calls of getFileStatus

\* The configuration's locales (#config.sourceLocale, #config.locales).
sourceLocale == "en"
locales == <<"fr", "de">>

Langs == {sourceLocale} \cup {locales[i] : i \in 1..Len(locales)}
Names == {"a", "b"}
Paths == {<<l, n>> : l \in Langs, n \in Names}
Patterns == {<<"@lang", "@path">>, <<"@lang", "a">>, <<"@lang", "b">>}
IncludeAll == <<"*", "*">>

VARIABLES
    files,          \* #config.files: the file groups, in declaration order
    exists,         \* the paths that are files on disk
    history,        \* lang -> date of the latest tracked change of its files
    notLocalizable, \* the paths isFileLocalizable answers with an Error
    gitFails,       \* the paths whose history lookup is rejected
    pc,             \* getFullStatus: idle, glob, await, returned, rejected, exited
    g,              \* index of the file group the loop is at
    tasks,          \* the getFileStatus evaluations dispatched so far
    status,         \* the `status` array of getFullStatus
    pushedBy,       \* for each element of status, the task that pushed it
    logs,           \* what was given to the logger
    earlier         \* the reports of the runs that returned before this one

vars == <<files, exists, history, notLocalizable, gitFails, pc, g, tasks, status, pushedBy, logs,
         earlier>>
env == <<files, exists, history, notLocalizable, gitFails>>

----------------------------------------------------------------------------
\* Order of strings (JavaScript compares UTF-16 code units).

Code(s) ==
    CASE s = "a" -> 1
      [] s = "b" -> 2
      [] s = "de" -> 3
      [] s = "en" -> 4
      [] s = "fr" -> 5
      [] OTHER -> 0

RECURSIVE PathLess(_, _)
PathLess(p, q) ==
    IF q = <<>> THEN FALSE
    ELSE IF p = <<>> THEN TRUE
    ELSE IF Code(Head(p)) # Code(Head(q)) THEN Code(Head(p)) < Code(Head(q))
    ELSE PathLess(Tail(p), Tail(q))

RECURSIVE Insert(_, _)
Insert(p, s) ==
    IF s = <<>> THEN <<p>>
    ELSE IF PathLess(p, Head(s)) THEN <<p>> \o s
    ELSE <<Head(s)>> \o Insert(p, Tail(s))

\* Array.prototype.sort() with the default comparison.
RECURSIVE Sort(_)
Sort(s) == IF s = <<>> THEN <<>> ELSE Insert(Head(s), Sort(Tail(s)))

Range(s) == {s[i] : i \in 1..Len(s)}
Reverse(s) == [i \in 1..Len(s) |-> s[Len(s) + 1 - i]]

RECURSIVE Listing(_)
Listing(S) ==
    IF S = {} THEN <<>>
    ELSE LET p == CHOOSE x \in S : \A y \in S \ {x} : PathLess(x, y)
         IN <<p>> \o Listing(S \ {p})
Min(S) == CHOOSE x \in S : \A y \in S : x <= y

----------------------------------------------------------------------------
\* The path resolver of a pattern (createPathResolver).

Match(pattern, path, lang) ==
    /\ Len(path) = Len(pattern)
    /\ \A i \in 1..Len(pattern) :
          CASE pattern[i] = "@lang" -> path[i] = lang
            [] pattern[i] = "@path" -> TRUE
            [] OTHER -> path[i] = pattern[i]

isSourcePathMatch(pattern, path) == Match(pattern, path, sourceLocale)

isLocalesPathMatch(pattern, path) ==
    \E i \in 1..Len(locales) : Match(pattern, path, locales[i])

toPath(pattern, path, lang) ==
    [i \in 1..Len(path) |-> IF pattern[i] = "@lang" THEN lang ELSE path[i]]

\* fast-glob: the files on disk that `include` matches, in no particular order.
GlobMatch(include, path) ==
    /\ Len(path) = Len(include)
    /\ \A i \in 1..Len(include) : include[i] = "*" \/ include[i] = path[i]

glob(include) ==
    LET found == Listing({p \in exists : GlobMatch(include, p)})
    IN {found, Reverse(found)}

\* The history provider (LunariaGitInstance.getFileLatestChanges).
getFileLatestChanges(path) == [latestTrackedChange |-> [date |-> history[path[1]]]]

\* isFileLocalizable: TRUE, or an Error.
isFileLocalizable(path) == path \notin notLocalizable

----------------------------------------------------------------------------
\* findFileConfig: the index of the first file group whose pattern the path
\* matches in its source or a locale form; 0 when there is none.
findFileConfig(path) ==
    LET found == {i \in 1..Len(files) :
                     \/ isSourcePathMatch(files[i].pattern, path)
                     \/ isLocalesPathMatch(files[i].pattern, path)}
    IN IF found = {} THEN 0 ELSE Min(found)

----------------------------------------------------------------------------
\* Variant of StartFile: the lookup of the source's history is issued before
\* the localizable check.
StartFileLookupFirst(gi, path) ==
    LET fileConfig == findFileConfig(path)
        skipped == [group |-> gi, path |-> path, fileConfig |-> fileConfig,
                    sourcePath |-> <<>>, pc |-> "skipped", error |-> "",
                    git |-> <<>>, loc |-> <<>>, order |-> <<>>, calls |-> <<>>,
                    checked |-> {}, result |-> <<>>]
    IN IF fileConfig = 0
       THEN [skipped EXCEPT !.error = "FileConfigNotFound"]
       ELSE LET pattern == files[fileConfig].pattern
                sourcePath == IF isSourcePathMatch(pattern, path)
                              THEN path
                              ELSE toPath(pattern, path, sourceLocale)
                looked == [skipped EXCEPT !.sourcePath = sourcePath,
                                          !.calls = <<sourcePath>>]
            IN IF ~isFileLocalizable(path)
               THEN [looked EXCEPT !.error = "NotLocalizable"]
               ELSE [looked EXCEPT !.pc = "source"]

\* getFileStatus up to its first await: the file group, the source path and
\* the localizable check, then the lookup of the source's history is issued.
StartFile(gi, path) ==
    LET fileConfig == findFileConfig(path)
        skipped == [group |-> gi, path |-> path, fileConfig |-> fileConfig,
                    sourcePath |-> <<>>, pc |-> "skipped", error |-> "",
                    git |-> <<>>, loc |-> <<>>, order |-> <<>>, calls |-> <<>>,
                    checked |-> {}, result |-> <<>>]
    IN IF fileConfig = 0
       THEN [skipped EXCEPT !.error = "FileConfigNotFound"]
       ELSE LET pattern == files[fileConfig].pattern
                sourcePath == IF isSourcePathMatch(pattern, path)
                              THEN path
                              ELSE toPath(pattern, path, sourceLocale)
            IN IF ~isFileLocalizable(path)
               THEN [skipped EXCEPT !.sourcePath = sourcePath,
                                    !.error = "NotLocalizable"]
               ELSE [skipped EXCEPT !.sourcePath = sourcePath,
                                    !.pc = "source",
                                    !.calls = <<sourcePath>>]

\* The per-locale callbacks up to their first await: each derives its
\* localized path and issues the lookup of its history.
StartLocales(task) ==
    [i \in 1..Len(locales) |->
        [lang |-> locales[i],
         path |-> toPath(files[task.fileConfig].pattern, task.path, locales[i]),
         pc |-> "lookup",
         entry |-> <<>>]]

\* Variant of LocaleLookups: the source's history is looked up again by each
\* per-locale callback.
LocaleLookupsWithSource(task) ==
    [n \in 1..(2 * Len(locales)) |->
        IF n % 2 = 1 THEN task.sourcePath ELSE StartLocales(task)[n \div 2].path]

\* The paths the per-locale callbacks give to the history provider, in the
\* order of the calls.
LocaleLookups(task) == [i \in 1..Len(locales) |-> StartLocales(task)[i].path]

\* Variant of isOutdated: the operands the other way round.
isOutdatedSwapped(latestSourceChanges, latestLocaleChanges) ==
    latestLocaleChanges.latestTrackedChange.date
        > latestSourceChanges.latestTrackedChange.date

\* Variant of isOutdated: a tie counts as outdated.
isOutdatedOrEqual(latestSourceChanges, latestLocaleChanges) ==
    latestSourceChanges.latestTrackedChange.date
        >= latestLocaleChanges.latestTrackedChange.date

isOutdated(latestSourceChanges, latestLocaleChanges) ==
    latestSourceChanges.latestTrackedChange.date
        > latestLocaleChanges.latestTrackedChange.date

\* What getDictionaryCompletion may do: return the missing keys, or throw.
MissingKeySets == {{}, {"k"}}

\* Variant of DictionaryOutcomes: the type of the file group is not looked at.
DictionaryOutcomesOfAnyType(type) ==
    {[throws |-> TRUE, data |-> <<>>]}
    \cup {[throws |-> FALSE, data |-> [missingKeys |-> m]] : m \in MissingKeySets}

DictionaryOutcomes(type) ==
    IF type = "dictionary"
    THEN {[throws |-> TRUE, data |-> <<>>]}
         \cup {[throws |-> FALSE, data |-> [missingKeys |-> m]] : m \in MissingKeySets}
    ELSE {[throws |-> FALSE, data |-> <<>>]}

\* Variant of AfterParseError: the error is logged and the run goes on.
AfterParseErrorLogged == pc

\* process.exit(1) in the catch of entryTypeData.
AfterParseError == "exited"

\* Variant of LocalizationEntry: no existsSync check.
LocalizationEntryUnchecked(task, sub, latestLocaleChanges, data) ==
    [lang |-> sub.lang, path |-> sub.path, git |-> latestLocaleChanges,
     status |-> IF isOutdated(task.git, latestLocaleChanges)
                THEN "outdated" ELSE "up-to-date"]

\* The StatusLocalizationEntry a per-locale callback returns.
LocalizationEntry(task, sub, latestLocaleChanges, data) ==
    IF sub.path \notin exists
    THEN [lang |-> sub.lang, path |-> sub.path, status |-> "missing"]
    ELSE LET entry == [lang |-> sub.lang, path |-> sub.path,
                       git |-> latestLocaleChanges,
                       status |-> IF isOutdated(task.git, latestLocaleChanges)
                                  THEN "outdated" ELSE "up-to-date"]
         IN IF data = <<>> THEN entry
            ELSE [f \in DOMAIN entry \cup {"missingKeys"} |->
                     IF f = "missingKeys" THEN data.missingKeys ELSE entry[f]]

\* Variant of Localizations: the results in the order the callbacks ended.
LocalizationsAsCompleted(task) ==
    [k \in 1..Len(task.order) |-> task.loc[task.order[k]].entry]

\* Promise.all over the per-locale callbacks: their results, in the order of
\* #config.locales.
Localizations(task) == [i \in 1..Len(task.loc) |-> task.loc[i].entry]

\* The value getFileStatus returns.
FileStatus(task) ==
    [pattern |-> files[task.fileConfig].pattern,
     type |-> files[task.fileConfig].type,
     source |-> [lang |-> sourceLocale, path |-> task.sourcePath, git |-> task.git],
     localizations |-> Localizations(task)]

\* Variants of Settled: fulfilled before the per-locale callbacks ended; a
\* skipped file never fulfilled.
SettledEarly(task) == task.pc \in {"skipped", "done", "locales"}

SettledDoneOnly(task) == task.pc = "done"

\* The promise of an evaluation is fulfilled: the file was skipped, or its
\* FileStatus was pushed.
Settled(task) == task.pc \in {"skipped", "done"}

\* Variant of AfterAwait: fulfilled by the first evaluation that is.
AfterAwaitAny(ts) ==
    IF \/ \A i \in 1..Len(ts) : ts[i].group # g
       \/ \E i \in 1..Len(ts) : ts[i].group = g /\ Settled(ts[i])
    THEN IF g < Len(files) THEN <<"glob", g + 1>> ELSE <<"returned", g>>
    ELSE <<"await", g>>

\* Promise.all over the evaluations of the current group is fulfilled once
\* each of them is; the loop then goes on to the next group, or returns.
AfterAwait(ts) ==
    IF \A i \in 1..Len(ts) : ts[i].group = g => Settled(ts[i])
    THEN IF g < Len(files) THEN <<"glob", g + 1>> ELSE <<"returned", g>>
    ELSE <<"await", g>>

\* A rejected evaluation rejects Promise.all, and with it getFullStatus.
AfterReject == IF pc = "await" THEN "rejected" ELSE pc

\* Variant of sourceFilePaths: nothing is filtered out.
sourceFilePathsUnfiltered(pattern, found) == found

\* The glob's paths that match the group's source pattern.
sourceFilePaths(pattern, found) ==
    SelectSeq(found, LAMBDA p : isSourcePathMatch(pattern, p))

ErrorLogs(started) ==
    LET failed == SelectSeq(started, LAMBDA t : t.error # "")
    IN [i \in 1..Len(failed) |->
           [level |-> "error", message |-> failed[i].error, path |-> failed[i].path]]

----------------------------------------------------------------------------
Groups == [pattern : Patterns, include : {IncludeAll}, type : {"universal"}]
GroupLists == UNION {[1..n -> Groups] : n \in 0..MaxGroups}
SourcePaths == {p \in Paths : p[1] = sourceLocale}

\* Runs over any list of file groups; every localized file is on disk.
InitRun ==
    /\ files \in GroupLists
    /\ exists \in {Paths \ S : S \in SUBSET SourcePaths}
    /\ history = [l \in Langs |-> IF l = locales[1] THEN 0 ELSE MaxTs]
    /\ notLocalizable \in SUBSET SourcePaths
    /\ gitFails \in {{}} \cup {{p} : p \in Paths}

\* Runs over one file group, for any tree and any history.
InitTree ==
    /\ files = <<[pattern |-> <<"@lang", "@path">>, include |-> IncludeAll,
                  type |-> "universal"]>>
    /\ exists \in {Paths \ S : S \in {A \in SUBSET Paths : Cardinality(A) <= MaxAbsent}}
    /\ history \in [Langs -> 0..MaxTs]
    /\ notLocalizable = {}
    /\ gitFails = {}

\* Runs over file groups of which one at least is a dictionary.
DictionaryGroups == [pattern : Patterns, include : {IncludeAll},
                     type : {"universal", "dictionary"}]
OneFile(d) == d.pattern # <<"@lang", "@path">>
DictionaryLists ==
    {<<d>> : d \in {x \in DictionaryGroups : x.type = "dictionary"}}
    \cup {fs \in {<<d, e>> : d, e \in {x \in DictionaryGroups : OneFile(x)}} :
              \E i \in DOMAIN fs : fs[i].type = "dictionary"}
InitDictionary ==
    /\ files \in DictionaryLists
    /\ exists \in {Paths, Paths \ {<<locales[1], "a">>}}
    /\ history = [l \in Langs |-> IF l = locales[1] THEN 0 ELSE MaxTs]
    /\ notLocalizable = {}
    /\ gitFails = {}

\* Nothing was called yet.
Constructed ==
    /\ pc = "idle"
    /\ g = 0
    /\ tasks = <<>>
    /\ status = <<>>
    /\ pushedBy = <<>>
    /\ logs = <<>>
    /\ earlier = <<>>

Init ==
    /\ InitRun \/ InitTree \/ InitDictionary
    /\ Constructed

\* getFullStatus is called: it runs up to the glob of the first file group.
GetFullStatus ==
    /\ pc = "idle"
    /\ IF Len(files) = 0
       THEN pc' = "returned" /\ g' = g
       ELSE pc' = "glob" /\ g' = 1
    /\ UNCHANGED <<env, earlier, tasks, status, pushedBy, logs>>

\* The glob of group g is answered: the paths are filtered by the source
\* pattern, the filtered-out ones are warned about, the kept ones are sorted
\* and one evaluation per kept path is started.
GlobDone ==
    /\ pc = "glob"
    /\ \E found \in glob(files[g].include) :
          LET pattern == files[g].pattern
              filteredOutPaths == SelectSeq(found, LAMBDA p : ~isSourcePathMatch(pattern, p))
              sorted == Sort(sourceFilePaths(pattern, found))
              started == [i \in 1..Len(sorted) |-> StartFile(g, sorted[i])]
              warning == IF Len(filteredOutPaths) > 0
                         THEN <<[level |-> "warn", message |-> "FilteredOut",
                                 path |-> Range(filteredOutPaths)]>>
                         ELSE <<>>
          IN /\ tasks' = tasks \o started
             /\ logs' = logs \o warning \o ErrorLogs(started)
             /\ pc' = AfterAwait(tasks')[1]
             /\ g' = AfterAwait(tasks')[2]
    /\ UNCHANGED <<env, earlier, status, pushedBy>>

\* The lookup of the source's history is answered for evaluation t.
SourceLookupDone(t) ==
    /\ pc # "exited"
    /\ tasks[t].pc = "source"
    /\ IF tasks[t].sourcePath \in gitFails
       THEN /\ tasks' = [tasks EXCEPT ![t].pc = "failed"]
            /\ pc' = AfterReject
       ELSE /\ tasks' = [tasks EXCEPT
                            ![t].pc = "locales",
                            ![t].git = getFileLatestChanges(tasks[t].sourcePath),
                            ![t].loc = StartLocales(tasks[t]),
                            ![t].calls = @ \o LocaleLookups(tasks[t])]
            /\ pc' = pc
    /\ UNCHANGED <<env, earlier, g, status, pushedBy, logs>>

\* The lookup of the history of the localized path of locale i is answered
\* for evaluation t; the callback runs to its end, and when it was the last
\* one of the file the FileStatus is pushed to status.
LocaleLookupDone(t, i) ==
    /\ pc # "exited"
    /\ tasks[t].pc \in {"locales", "failed"}
    /\ tasks[t].loc[i].pc = "lookup"
    /\ LET task == tasks[t]
           sub == task.loc[i]
       IN IF sub.path \in gitFails
          THEN /\ tasks' = [tasks EXCEPT ![t].pc = "failed", ![t].loc[i].pc = "failed"]
               /\ pc' = AfterReject
               /\ UNCHANGED <<g, status, pushedBy, logs>>
          ELSE \E outcome \in DictionaryOutcomes(
                      IF sub.path \in exists THEN files[task.fileConfig].type ELSE "") :
                 IF outcome.throws
                 THEN /\ pc' = AfterParseError
                      /\ logs' = Append(logs, [level |-> "error", message |-> "ParseError",
                                                path |-> sub.path])
                      /\ tasks' = [tasks EXCEPT ![t].checked = @ \cup {sub.path}]
                      /\ UNCHANGED <<g, status, pushedBy>>
                 ELSE LET entry == LocalizationEntry(task, sub,
                                       getFileLatestChanges(sub.path), outcome.data)
                          loc == [task.loc EXCEPT ![i].pc = "done", ![i].entry = entry]
                          last == /\ task.pc = "locales"
                                  /\ \A j \in 1..Len(loc) : loc[j].pc = "done"
                          settled == [task EXCEPT !.loc = loc,
                                                  !.order = Append(@, i),
                                                  !.checked = @ \cup {sub.path},
                                                  !.pc = IF last THEN "done" ELSE @]
                          done == [settled EXCEPT
                                      !.result = IF last THEN FileStatus(settled) ELSE @]
                      IN /\ tasks' = [tasks EXCEPT ![t] = done]
                         /\ IF last /\ task.group # 0
                            THEN /\ status' = Append(status, done.result)
                                 /\ pushedBy' = Append(pushedBy, t)
                            ELSE UNCHANGED <<status, pushedBy>>
                         /\ IF last /\ pc = "await"
                            THEN pc' = AfterAwait(tasks')[1] /\ g' = AfterAwait(tasks')[2]
                            ELSE UNCHANGED <<pc, g>>
                         /\ UNCHANGED logs
    /\ UNCHANGED <<env, earlier>>

Next ==
    \/ GetFullStatus
    \/ GlobDone
    \/ \E t \in 1..Len(tasks) : SourceLookupDone(t)
    \/ \E t \in 1..Len(tasks) : \E i \in 1..Len(tasks[t].loc) : LocaleLookupDone(t, i)

Spec == Init /\ [][Next]_vars

----------------------------------------------------------------------------
\* Two runs of getFullStatus on one instance.  Between them the source files
\* may get a newer commit; the tree and the configuration stay as they are.

\* The histories after a commit, or none, to the files of the source locale.
SourceCommitted ==
    {[history EXCEPT ![sourceLocale] = d] : d \in history[sourceLocale]..MaxTs}

\* getFullStatus is called once more after it returned.
CallAgain ==
    /\ pc = "returned"
    /\ earlier = <<>>
    /\ earlier' = <<[status |-> status, history |-> history]>>
    /\ history' \in SourceCommitted
    /\ IF Len(files) = 0
       THEN pc' = "returned" /\ g' = g
       ELSE pc' = "glob" /\ g' = 1
    /\ tasks' = <<>>
    /\ status' = <<>>
    /\ pushedBy' = <<>>
    /\ UNCHANGED <<files, exists, notLocalizable, gitFails, logs>>

\* The file groups are universal: reading dictionaries plays no part here.
InitTwice ==
    /\ InitRun \/ InitTree
    /\ Constructed

NextTwice ==
    \/ Next
    \/ CallAgain

SpecTwice == InitTwice /\ [][NextTwice]_vars

----------------------------------------------------------------------------
\* getFileStatus called directly, with the path of a source file or of a
\* localized one.

InitFile ==
    /\ files \in {<<>>} \cup {<<d>> : d \in Groups}
    /\ exists \in {Paths, Paths \ {<<locales[1], "a">>}}
    /\ history = [l \in Langs |-> IF l = locales[1] THEN 0 ELSE MaxTs]
    /\ notLocalizable \in {{}} \cup {{p} : p \in Paths}
    /\ gitFails = {}
    /\ Constructed

\* getFileStatus(path) is called and awaited: it runs up to its first await,
\* or returns undefined at once.  The caller makes its next call when this one
\* is settled.
CallGetFileStatus(path) ==
    /\ pc = "idle"
    /\ Len(tasks) < MaxCalls
    /\ \A t \in 1..Len(tasks) : Settled(tasks[t])
    /\ LET started == <<StartFile(0, path)>>
       IN /\ tasks' = tasks \o started
          /\ logs' = logs \o ErrorLogs(started)
    /\ UNCHANGED <<env, earlier, pc, g, status, pushedBy>>

NextFile ==
    \/ \E path \in Paths : CallGetFileStatus(path)
    \/ \E t \in 1..Len(tasks) : SourceLookupDone(t)
    \/ \E t \in 1..Len(tasks) : \E i \in 1..Len(tasks[t].loc) : LocaleLookupDone(t, i)

SpecFile == InitFile /\ [][NextFile]_vars

----------------------------------------------------------------------------
\* Properties of the report.

Entries == 1..Len(status)
Evaluations == 1..Len(tasks)
LocalizationsOf(k) == {status[k].localizations[n] : n \in 1..Len(status[k].localizations)}
LatestDate(path) == history[path[1]]
PushesOf(t) == {k \in Entries : pushedBy[k] = t}

\* C1: in the returned report the entries of one file group are in the sorted
\* order of their paths, whatever the order in which the evaluations ended.
C1_GroupEntriesInSortedOrder ==
    pc = "returned" =>
        \A i, j \in Entries :
            (i < j /\ tasks[pushedBy[i]].group = tasks[pushedBy[j]].group)
                => PathLess(tasks[pushedBy[i]].path, tasks[pushedBy[j]].path)

\* C2: the history provider is never invoked for a localized path that is not
\* on disk.
C2_NoLookupOfMissingPath ==
    \A t \in Evaluations :
        \A n \in 1..Len(tasks[t].loc) :
            tasks[t].loc[n].path \notin exists
                => tasks[t].loc[n].path \notin Range(tasks[t].calls)

\* C3: a localization whose file is on disk is 'outdated' exactly when the
\* latest tracked change of the source is strictly newer than that of the
\* localized file, and 'up-to-date' otherwise (equal dates included).
C3_OutdatedIffSourceNewer ==
    \A k \in Entries :
        \A l \in LocalizationsOf(k) :
            l.path \in exists =>
                l.status = IF LatestDate(status[k].source.path) > LatestDate(l.path)
                           THEN "outdated" ELSE "up-to-date"

C3_Witness ==
    \E k \in Entries :
        \E l, m \in LocalizationsOf(k) :
            /\ l.status = "outdated"
            /\ m.status = "up-to-date"
            /\ LatestDate(m.path) = LatestDate(status[k].source.path)

\* C4: a localization is 'missing' exactly when its path is not on disk; a
\* 'missing' one carries no change record, any other one carries the change
\* record of its own localized path.
C4_MissingIffAbsent ==
    \A k \in Entries :
        \A l \in LocalizationsOf(k) :
            /\ l.status = "missing" <=> l.path \notin exists
            /\ l.status = "missing" => "git" \notin DOMAIN l
            /\ l.status # "missing" =>
                  /\ "git" \in DOMAIN l
                  /\ l.path[1] = l.lang
                  /\ l.git.latestTrackedChange.date = LatestDate(l.path)

C4_Witness ==
    \E k \in Entries :
        \E l, m \in LocalizationsOf(k) :
            /\ l.status = "missing"
            /\ m.status # "missing"
            /\ LatestDate(m.path) # LatestDate(status[k].source.path)

\* C5: when getFullStatus returns no evaluation is pending, one evaluation was
\* started for every discovered path that matches its group's source pattern,
\* and the report holds exactly one entry for each of them that was not
\* skipped and none for the others.
C5_ReportComplete ==
    pc = "returned" =>
        /\ \A t \in Evaluations : Settled(tasks[t])
        /\ \A gi \in 1..Len(files) :
              \A p \in {q \in exists : GlobMatch(files[gi].include, q)} :
                  Cardinality({t \in Evaluations : tasks[t].group = gi /\ tasks[t].path = p})
                      = IF isSourcePathMatch(files[gi].pattern, p) THEN 1 ELSE 0
        /\ \A t \in Evaluations :
              /\ Cardinality(PushesOf(t)) = IF tasks[t].pc = "skipped" THEN 0 ELSE 1
              /\ \A k \in PushesOf(t) : status[k].source.path = tasks[t].path
        /\ Len(pushedBy) = Len(status)

C5_Witness ==
    /\ pc = "returned"
    /\ Len(status) >= 2
    /\ \E t \in Evaluations : tasks[t].pc = "skipped"

\* C6: no two entries of the returned report have the same source path.
C6_UniqueSourcePaths ==
    pc = "returned" =>
        \A i, j \in Entries : i # j => status[i].source.path # status[j].source.path

\* C7: in the returned report the entries produced while an earlier file
\* group was processed precede those of every later group.
C7_GroupsInDeclarationOrder ==
    pc = "returned" =>
        \A i, j \in Entries :
            i < j => tasks[pushedBy[i]].group <= tasks[pushedBy[j]].group

C7_Witness ==
    /\ pc = "returned"
    /\ \E i, j \in Entries : tasks[pushedBy[i]].group < tasks[pushedBy[j]].group
    /\ \E i, j \in Entries : i # j /\ tasks[pushedBy[i]].group = tasks[pushedBy[j]].group

\* C8: every entry holds one localization per configured locale, in the order
\* of the configuration, whatever the order in which the per-locale callbacks
\* ended.
C8_OneLocalizationPerLocale ==
    \A k \in Entries :
        /\ Len(status[k].localizations) = Len(locales)
        /\ \A n \in 1..Len(locales) : status[k].localizations[n].lang = locales[n]

C8_Witness ==
    \E k \in Entries :
        /\ tasks[pushedBy[k]].order = Reverse([n \in 1..Len(locales) |-> n])
        /\ Len(status[k].localizations) = Len(locales)

\* C9: a file whose evaluation ends with FileGroupNotFound or NotLocalizable
\* contributes no entry and its error is logged; its siblings each contribute
\* their entry; getFullStatus is rejected only when a history lookup was, and
\* while it awaits a group some evaluation of that group has a lookup pending,
\* so that it goes on to return.
C9_SkipState ==
    /\ \A t \in Evaluations :
          tasks[t].error # "" =>
              /\ PushesOf(t) = {}
              /\ \E n \in 1..Len(logs) :
                    /\ logs[n].level = "error"
                    /\ logs[n].message = tasks[t].error
                    /\ logs[n].path = tasks[t].path
    /\ pc = "returned" =>
          \A t \in Evaluations : tasks[t].error = "" => Cardinality(PushesOf(t)) = 1
    /\ pc = "rejected" => \E t \in Evaluations : tasks[t].pc = "failed"

C9_SkipIsIsolated ==
    /\ C9_SkipState
    /\ pc = "await" =>
          \E t \in Evaluations :
              /\ tasks[t].group = g
              /\ \/ tasks[t].pc = "source"
                 \/ /\ tasks[t].pc = "locales"
                    /\ \E n \in 1..Len(tasks[t].loc) : tasks[t].loc[n].pc = "lookup"

C9_Witness ==
    /\ pc = "returned"
    /\ \E t, u \in Evaluations :
          /\ tasks[t].group = tasks[u].group
          /\ tasks[t].error = "NotLocalizable"
          /\ PushesOf(u) # {}

\* C10: a rejected history lookup is recovered: no evaluation fails and
\* getFullStatus is not rejected.
C10_LookupFailureRecovered ==
    /\ pc # "rejected"
    /\ \A t \in Evaluations : tasks[t].pc # "failed"

----------------------------------------------------------------------------
\* Properties of the runs.

ParseErrors == {n \in 1..Len(logs) : logs[n].message = "ParseError"}
Pending(task) == task.pc \in {"source", "locales"}

\* C11: when getDictionaryCompletion throws for a localized file of a
\* dictionary group, the process exits: getFullStatus does not return, and
\* from then on the evaluations that were pending add nothing to the report.
C11_ParseErrorIsFatal ==
    [][/\ ParseErrors' # {} => pc' = "exited"
       /\ pc = "exited" => status' = status /\ tasks' = tasks]_vars

C11_Witness ==
    /\ pc = "exited"
    /\ ParseErrors # {}
    /\ \E t, u \in Evaluations :
          /\ tasks[t].pc = "source"
          /\ tasks[u].pc = "locales"
          /\ \E n \in ParseErrors : logs[n].path \in tasks[u].checked

\* The groups whose glob was answered, and the paths of a group's glob that
\* do not match its source pattern.
Globbed == IF pc = "idle" THEN 0 ELSE IF pc = "glob" THEN g - 1 ELSE g
Discovered(gi) == {p \in exists : GlobMatch(files[gi].include, p)}
FilteredOut(gi) == {p \in Discovered(gi) : ~isSourcePathMatch(files[gi].pattern, p)}
Warnings == {n \in 1..Len(logs) : logs[n].level = "warn"}

\* C12: a discovered path that does not match the source pattern of its group
\* is given to no evaluation and has no entry; it is listed in the one warning
\* of its group; the other paths of the group are each evaluated, and the run
\* ends rejected or exited only after a rejected lookup or a parse error.
C12_FilteredOutPaths ==
    /\ \A gi \in 1..Globbed :
          /\ \A p \in FilteredOut(gi) :
                /\ ~\E t \in Evaluations : tasks[t].group = gi /\ tasks[t].path = p
                /\ ~\E k \in Entries :
                       tasks[pushedBy[k]].group = gi /\ status[k].source.path = p
          /\ FilteredOut(gi) # {} =>
                \E n \in Warnings : logs[n].path = FilteredOut(gi)
          /\ \A p \in Discovered(gi) \ FilteredOut(gi) :
                \E t \in Evaluations : tasks[t].group = gi /\ tasks[t].path = p
    /\ Cardinality(Warnings) = Cardinality({gi \in 1..Globbed : FilteredOut(gi) # {}})
    /\ pc \in {"rejected", "exited"} => gitFails # {} \/ ParseErrors # {}

C12_Witness ==
    /\ pc = "returned"
    /\ \E gi \in 1..Len(files) :
          /\ FilteredOut(gi) # {}
          /\ Discovered(gi) \ FilteredOut(gi) # {}
          /\ \E k \in Entries : tasks[pushedBy[k]].group = gi

\* The report of the earlier run, and whether the history is still the one
\* that run saw.
EarlierStatus == earlier[1].status
SameHistory == earlier[1].history = history

\* C13: a second run over the same configuration, tree and history returns
\* the report of the first one, with the same entries in the same order.
C13_RunsAgree ==
    (pc = "returned" /\ earlier # <<>> /\ SameHistory) => status = EarlierStatus

\* C14: for a localized file on disk whose date stays as it is, after a newer
\* commit to the source a localization that was 'outdated' is 'outdated'
\* still, and any localization is 'outdated' once the source's date exceeds
\* that of the localized file.
C14_OutdatedMonotone ==
    earlier # <<>> =>
        \A k \in Entries : \A j \in 1..Len(EarlierStatus) :
            status[k].source.path = EarlierStatus[j].source.path =>
                \A n \in 1..Len(locales) :
                    LET new == status[k].localizations[n]
                        old == EarlierStatus[j].localizations[n]
                    IN new.path \in exists =>
                          /\ old.status = "outdated" => new.status = "outdated"
                          /\ LatestDate(status[k].source.path) > LatestDate(new.path)
                                => new.status = "outdated"

C14_Witness ==
    /\ earlier # <<>>
    /\ history[sourceLocale] > earlier[1].history[sourceLocale]
    /\ \E k \in Entries : \E j \in 1..Len(EarlierStatus) :
          /\ status[k].source.path = EarlierStatus[j].source.path
          /\ \E n, m \in 1..Len(locales) :
                /\ EarlierStatus[j].localizations[n].status = "outdated"
                /\ status[k].localizations[n].status = "outdated"
                /\ EarlierStatus[j].localizations[m].status = "up-to-date"
                /\ status[k].localizations[m].status = "outdated"

\* How many times an evaluation gave `path` to the history provider.
Lookups(task, path) == Cardinality({n \in 1..Len(task.calls) : task.calls[n] = path})

\* C15: an evaluation that is not skipped looks up the history of its source
\* path exactly once, and first; no per-locale callback has started while
\* that lookup is pending; the history of each localized path is looked up
\* at most once.
C15_LookupsPerEvaluation ==
    \A t \in Evaluations :
        tasks[t].pc # "skipped" =>
            /\ Lookups(tasks[t], tasks[t].sourcePath) = 1
            /\ tasks[t].calls[1] = tasks[t].sourcePath
            /\ tasks[t].pc = "source" => tasks[t].loc = <<>> /\ Len(tasks[t].calls) = 1
            /\ \A i \in 1..Len(locales) :
                  Lookups(tasks[t], toPath(files[tasks[t].fileConfig].pattern,
                                           tasks[t].path, locales[i])) <= 1

C15_Witness ==
    \E t, u \in Evaluations :
        /\ tasks[t].pc = "source"
        /\ tasks[u].pc = "done"
        /\ Len(tasks[u].calls) = 1 + Len(locales)

\* C16: a localization carries missingKeys exactly when its file group is of
\* type 'dictionary' and its localized file is on disk.
C16_MissingKeysOfDictionaries ==
    \A k \in Entries :
        \A l \in LocalizationsOf(k) :
            "missingKeys" \in DOMAIN l
                <=> (status[k].type = "dictionary" /\ l.path \in exists)

C16_Witness ==
    \E k, j \in Entries :
        /\ status[k].type = "dictionary"
        /\ status[j].type = "universal"
        /\ \E l, m \in LocalizationsOf(k) :
              /\ "missingKeys" \in DOMAIN l
              /\ m.status = "missing"
        /\ \E l \in LocalizationsOf(j) : l.status # "missing"

\* C17 as stated: while getFullStatus awaits the evaluations of a group, no
\* later group that has source files to evaluate is held back by them.
C17_LaterGroupsDoNotWait ==
    \A j \in 1..Len(files) :
        (pc = "await" /\ j > g /\ Discovered(j) \ FilteredOut(j) # {})
            => ~\E t \in Evaluations : tasks[t].group = g /\ Pending(tasks[t])

\* C17, amended: the evaluations in flight are all of the group the loop is
\* at; those of every earlier group are settled, and the glob of a group is
\* pending only while no evaluation is.
C17_OneGroupInFlight ==
    \A t \in Evaluations :
        /\ Pending(tasks[t]) => tasks[t].group = g /\ pc \notin {"glob", "returned"}
        /\ tasks[t].group < g => ~Pending(tasks[t])

C17_Witness ==
    /\ pc = "await"
    /\ g > 1
    /\ \E t \in Evaluations : tasks[t].group < g /\ tasks[t].pc = "done"
    /\ \E t, u \in Evaluations :
          /\ t # u
          /\ tasks[t].group = g /\ tasks[u].group = g
          /\ Pending(tasks[t]) /\ Pending(tasks[u])

\* C18: an evaluation that is skipped, for want of a file group or because
\* the file is not localizable, has made no history lookup and no check of
\* the existence of a file, and has started no per-locale callback.
C18_SkippedTouchesNothing ==
    \A t \in Evaluations :
        tasks[t].pc = "skipped" =>
            /\ tasks[t].calls = <<>>
            /\ tasks[t].checked = {}
            /\ tasks[t].loc = <<>>

C18_Witness ==
    \E t, u \in Evaluations :
        /\ tasks[t].pc = "skipped" /\ tasks[t].error = "FileConfigNotFound"
        /\ tasks[u].pc = "skipped" /\ tasks[u].error = "NotLocalizable"

\* C19: getFileStatus of a path in the form of a target locale and
\* getFileStatus of its source form end alike: both skipped, or both with
\* the same FileStatus.
C19_SameOutcome ==
    \A t, u \in Evaluations :
        (/\ Settled(tasks[t]) /\ Settled(tasks[u])
         /\ tasks[t].fileConfig # 0
         /\ tasks[u].fileConfig = tasks[t].fileConfig
         /\ ~isSourcePathMatch(files[tasks[t].fileConfig].pattern, tasks[t].path)
         /\ tasks[u].path = toPath(files[tasks[t].fileConfig].pattern,
                                   tasks[t].path, sourceLocale))
            => /\ tasks[t].pc = tasks[u].pc
               /\ tasks[t].result = tasks[u].result

====
